---- MODULE Spec2Model ----
(***************************************************************************)
(* Model of the browser-side Aztec glue: the AzGuard wallet connector      *)
(* (azguard-client), the JSON-RPC contract client (AztecRPCClient,         *)
(* AztecContractClient), the sponsored wallet (AztecSponsoredWallet) and   *)
(* the account-abstraction stub (AztecAccountAbstraction).                 *)
(*                                                                         *)
(* The host is a single-threaded event loop.  An invocation of an async    *)
(* function runs synchronously up to its next await; one action of the     *)
(* model is one such segment, started by the settling of the promise it    *)
(* awaits.  What the wallet extension, the crypto API and the RPC endpoint *)
(* answer is chosen by the environment from small sets.                    *)
(***************************************************************************)
EXTENDS Integers, Sequences, FiniteSets, TLC

\* ------------------------------------------------------------- bounds
\* Invocations that may be in flight at once.
MaxCalls == 2
\* Longest account string the wallet hands out, in characters.
MaxLen == 2
\* Distinct key pairs crypto.subtle.generateKey may produce.
MaxKeys == 2
\* Distinct values crypto.getRandomValues may produce for an address.
MaxRand == 2
\* Distinct client objects AzguardClient.create may hand out.
MaxClients == 1

Calls == 1..MaxCalls

\* ------------------------------------------------------------- strings
\* A string is a sequence of characters; a literal of the source that is
\* only ever copied or compared whole is a one-element sequence.
Chars == {":", "a", "b"}

RECURSIVE StrUpTo(_)
StrUpTo(n) ==
    IF n = 0 THEN {<<>>}
    ELSE LET shorter == StrUpTo(n - 1)
         IN shorter \cup {Append(s, ch) : s \in {x \in shorter : Len(x) = n - 1}, ch \in Chars}

Digits == <<"0", "1", "2", "3", "4", "5", "6", "7", "8", "9">>
Digit(i) == Digits[i + 1]

\* String.prototype.includes for a needle of any length.
Includes(s, needle) ==
    \E i \in 1..(Len(s) + 1) :
        /\ i + Len(needle) - 1 <= Len(s)
        /\ SubSeq(s, i, i + Len(needle) - 1) = needle

\* ------------------------------------------------------------- JS values
\* A JavaScript value: its type tag t, its number n (a boolean is 0/1) and
\* its characters or, for an array, its elements s.
Undefined == [t |-> "undefined", n |-> 0, s |-> <<>>]
JSNull    == [t |-> "null", n |-> 0, s |-> <<>>]
JSBool(b) == [t |-> "bool", n |-> IF b THEN 1 ELSE 0, s |-> <<>>]
JSNum(k)  == [t |-> "num", n |-> k, s |-> <<>>]
JSStr(str) == [t |-> "str", n |-> 0, s |-> str]
JSArr(els) == [t |-> "array", n |-> 0, s |-> els]
JSObj(tag) == [t |-> "object", n |-> 0, s |-> <<tag>>]

\* Boolean(v), and the truthiness test of if (v), v || w.
Truthy(v) ==
    CASE v.t = "undefined" -> FALSE
      [] v.t = "null"      -> FALSE
      [] v.t = "bool"      -> v.n = 1
      [] v.t = "num"       -> v.n # 0
      [] v.t = "str"       -> v.s # <<>>
      [] OTHER             -> TRUE

RECURSIVE DecStr(_)
DecStr(k) == IF k < 10 THEN <<Digit(k)>> ELSE DecStr(k \div 10) \o <<Digit(k % 10)>>

RECURSIVE Join(_)
Join(els) ==
    IF els = <<>> THEN <<>>
    ELSE IF Len(els) = 1 THEN <<els[1]>>
    ELSE <<els[1], ",">> \o Join(Tail(els))

\* v.toString() of a value that is neither null nor undefined.
ToStr(v) ==
    CASE v.t = "bool"  -> IF v.n = 1 THEN <<"t", "r", "u", "e">> ELSE <<"f", "a", "l", "s", "e">>
      [] v.t = "num"   -> DecStr(v.n)
      [] v.t = "str"   -> v.s
      [] v.t = "array" -> Join(v.s)
      [] OTHER         -> <<"[object Object]">>

IsDigit(ch) == \E i \in 0..9 : Digit(i) = ch
DigitVal(ch) == CHOOSE i \in 0..9 : Digit(i) = ch

\* The leading decimal digits of s as a number; -1 stands for NaN.
RECURSIVE LeadingInt(_, _)
LeadingInt(s, acc) ==
    IF s = <<>> \/ ~IsDigit(s[1]) THEN acc
    ELSE LeadingInt(Tail(s), (IF acc < 0 THEN 0 ELSE acc) * 10 + DigitVal(s[1]))

\* parseInt(v): v is converted to a string first; -1 stands for NaN.
ParseInt(v) ==
    CASE v.t = "undefined" -> -1
      [] v.t = "null"      -> -1
      [] OTHER             -> LeadingInt(ToStr(v), -1)

SixFalse == JSArr(<<"false", "false", "false", "false", "false", "false">>)

\* ------------------------------------------------------------- the endpoint
\* What a fetch settles with: the promise rejects (network exception), or
\* resolves with a response whose ok flag is set or not.
FetchOutcomes == {"reject", "ok", "notok"}

\* The message of the exception a rejected fetch or a failed response.json()
\* carries (browsers give both a non-empty text).
NetworkErrorMessage == <<"Failed to fetch">>
SyntaxErrorMessage == <<"Unexpected token < in JSON">>
TypeErrorMessage == <<"Cannot read properties of null">>

\* The result field of a simulate response.
RpcResults ==
    { Undefined, JSNull, JSBool(TRUE), JSNum(7), JSStr(<<"4", "2">>), SixFalse,
      JSArr(<<"true", "false", "false", "true", "false", "false">>),
      JSArr(<<"true", "1">>) }

\* A response body as response.json() settles with it: it cannot be parsed
\* (kind "unparsable"), it is the JSON value null (kind "null"), or it is an
\* envelope object whose error field is absent, null, or an object with a
\* message, and whose result field is result (Undefined when absent).
Body(kind, err, msg, result) ==
    [kind |-> kind, err |-> err, msg |-> msg, result |-> result]

SimulateBodies ==
    { Body("unparsable", "absent", <<>>, Undefined), Body("null", "absent", <<>>, Undefined) }
    \cup { Body("object", "absent", <<>>, r) : r \in RpcResults }
    \cup { Body("object", "null", <<>>, JSBool(TRUE)) }
    \cup { Body("object", "object", <<"x">>, Undefined), Body("object", "object", <<"a", "b">>, JSBool(TRUE)) }

\* ------------------------------------------------------------- state
\* An account object: the wrapper of createAccountWrapper (kind "azguard"),
\* the object createSponsoredAccount builds (kind "sponsored") or the one
\* createAAAccount builds (kind "aa"); kind "none" is null.
NoAccount ==
    [kind |-> "none", address |-> Undefined, fullAccount |-> Undefined, client |-> 0,
     keyPair |-> 0, transactionHash |-> Undefined, networkRegistered |-> FALSE]

\* What an invocation settles with: the promise is pending, resolved or
\* rejected; success, address, account, provider and error are the fields of
\* a result object (success "none": the value is not a result object), value
\* is a plain return value, error also holds the message of a rejection.
NoRet ==
    [state |-> "pending", success |-> "none", value |-> Undefined, error |-> <<>>,
     address |-> Undefined, account |-> NoAccount, provider |-> "none"]

Resolved(v) == [NoRet EXCEPT !.state = "resolved", !.value = v]
Rejected(msg) == [NoRet EXCEPT !.state = "rejected", !.error = msg]
Failure(msg) == [NoRet EXCEPT !.state = "resolved", !.success = "false", !.error = msg]

\* What simulateTransaction settles with.
NoSim == [settled |-> FALSE, threw |-> FALSE, msg |-> <<>>, value |-> Undefined]
Threw(msg) == [settled |-> TRUE, threw |-> TRUE, msg |-> msg, value |-> Undefined]
Returned(v) == [settled |-> TRUE, threw |-> FALSE, msg |-> <<>>, value |-> v]

NoBody == Body("none", "absent", <<>>, Undefined)

\* The local variables of an invocation: the key pair it generated, the
\* address it derived or generated, the key pair whose public key it put into
\* its deployment request, the wallet client it created; body and sim are the
\* response body simulateTransaction parsed (for createAAAccount: the creation
\* response, result being its result.address) and what it settled with; cleared
\* is whether the object held no account, by a disconnect, when the invocation
\* began; isInstalled is what isAzguardInstalled() settled with, connected
\* what the created client reported as azguard.connected.
NoLoc ==
    [keyPair |-> 0, address |-> Undefined, sent |-> 0, client |-> 0,
     body |-> NoBody, sim |-> NoSim, cleared |-> FALSE, isInstalled |-> "pending",
     connected |-> "unknown"]

\* An invocation slot.  trace lists, in order, the requests and wallet calls
\* the invocation has issued; failedAt is the length of trace when the first of
\* them failed (0: none has).
IdleCall ==
    [op |-> "idle", pc |-> "idle", trace |-> <<>>, failedAt |-> 0, ret |-> NoRet, loc |-> NoLoc]

\* The four objects of the page share no state: a run exercises one of them.
Components == {"azguard", "contracts", "sponsored", "aa"}

VARIABLES
    component,        \* the object the run exercises
    calls,            \* the invocations in flight, by slot
    walletAccounts,   \* the accounts the wallet extension holds (azguard.accounts)
    azguardInstance,  \* let azguardInstance (0 is null, else the client)
    sponsored,        \* aztecSponsoredWallet's fields account and keyPair (0 is null)
    aa,               \* the AztecAccountAbstraction object's field account
    cleared,          \* per object: disconnected (or new) and no create call has succeeded since
    disconnected      \* per object: disconnect() has run and no create call was started since

vars == <<component, calls, walletAccounts, azguardInstance, sponsored, aa, cleared, disconnected>>

\* azguard.accounts: undefined, or a list of account strings
\* "namespace:chainId:address"; one list holds a value that is no string.
NoAccounts == [defined |-> FALSE, list |-> <<>>]
\* "aztec:11155111:0xABC", its three segments kept whole.
ExampleAccount == JSStr(<<"aztec", ":", "11155111", ":", "0xABC">>)
AccountLists ==
    { NoAccounts, [defined |-> TRUE, list |-> <<>>],
      [defined |-> TRUE, list |-> <<JSObj("account")>>] }
    \cup { [defined |-> TRUE, list |-> <<JSStr(s)>>] : s \in StrUpTo(MaxLen) }
    \cup { [defined |-> TRUE, list |-> <<ExampleAccount>>],
           [defined |-> TRUE, list |-> <<JSStr(<<"a", ":", "b">>), JSStr(<<"b">>)>>] }

Init ==
    /\ component \in Components
    /\ calls = [c \in Calls |-> IdleCall]
    /\ walletAccounts \in (IF component = "azguard" THEN AccountLists ELSE {NoAccounts})
    /\ azguardInstance = 0
    /\ sponsored = [account |-> NoAccount, keyPair |-> 0]
    /\ aa = [account |-> NoAccount]
    /\ cleared = [sponsored |-> TRUE, aa |-> TRUE]
    /\ disconnected = [sponsored |-> FALSE, aa |-> FALSE]

\* A new invocation takes the first slot that is free.
FreeSlot(c) ==
    /\ calls[c].op = "idle"
    /\ \A d \in 1..(c - 1) : calls[d].op # "idle"

Begin(op, pc, first) ==
    [IdleCall EXCEPT !.op = op, !.pc = pc, !.trace = first]

\* Issue sending everything twice.
Issue_twice(call, what) == [call EXCEPT !.trace = Append(Append(@, what), what)]

\* The invocation issues one more request or wallet call.
Issue(call, what) == [call EXCEPT !.trace = Append(@, what)]

\* The request or wallet call the invocation awaits has failed.
Fail(call) == [call EXCEPT !.failedAt = IF @ = 0 THEN Len(call.trace) ELSE @]

Done(call, ret) == [call EXCEPT !.pc = "done", !.ret = ret]

\* ------------------------------------------------------------- AztecRPCClient
\* simulateTransaction without the test of result.error.
simulateTransaction_noErrorTest(body) ==
    IF body.kind = "unparsable" THEN Threw(SyntaxErrorMessage)
    ELSE IF body.kind = "null" THEN Threw(TypeErrorMessage)
    ELSE Returned(body.result)

\* simulateTransaction from the parsed body on: response.json() rejects on a
\* body that is no JSON, result.error of the value null throws a TypeError, a
\* truthy error field throws, and result.result is returned otherwise.
simulateTransaction(body) ==
    IF body.kind = "unparsable" THEN Threw(SyntaxErrorMessage)
    ELSE IF body.kind = "null" THEN Threw(TypeErrorMessage)
    ELSE IF body.err = "object" THEN Threw(<<"Simulation error: ">> \o body.msg)
    ELSE Returned(body.result)

\* getBlockNumber from the parsed body on: result.result || 0, and 0 on any
\* exception.
getBlockNumber(body) ==
    IF body.kind # "object" THEN JSNum(0)
    ELSE IF Truthy(body.result) THEN body.result ELSE JSNum(0)

\* ------------------------------------------------------------- AztecContractClient
\* blockNumber > 0: the operand is converted to a number.
GreaterThanZero(v) ==
    CASE v.t = "num"  -> v.n > 0
      [] v.t = "bool" -> v.n = 1
      [] v.t = "str"  -> v.s # <<>> /\ (\A i \in 1..Len(v.s) : IsDigit(v.s[i])) /\ LeadingInt(v.s, -1) > 0
      [] OTHER        -> FALSE

testConnection(blockNumber) == Resolved(JSBool(GreaterThanZero(blockNumber)))

createProfile(sim) ==
    IF sim.threw THEN Rejected(sim.msg)
    ELSE [Resolved(JSObj("profile")) EXCEPT !.success = "true"]

hasProfile(sim) ==
    IF sim.threw THEN Resolved(JSBool(FALSE)) ELSE Resolved(JSBool(Truthy(sim.value)))

\* getProfileId rethrowing, as createProfile does.
getProfileId_rethrows(sim) ==
    IF sim.threw THEN Rejected(sim.msg)
    ELSE IF sim.value.t \in {"undefined", "null"} THEN Resolved(JSStr(<<"0">>))
    ELSE IF ToStr(sim.value) = <<>> THEN Resolved(JSStr(<<"0">>))
    ELSE Resolved(JSStr(ToStr(sim.value)))

getProfileId(sim) ==
    IF sim.threw THEN Resolved(JSStr(<<"0">>))
    ELSE IF sim.value.t \in {"undefined", "null"} THEN Resolved(JSStr(<<"0">>))
    ELSE IF ToStr(sim.value) = <<>> THEN Resolved(JSStr(<<"0">>))
    ELSE Resolved(JSStr(ToStr(sim.value)))

getTotalProfiles(sim) ==
    IF sim.threw THEN Resolved(JSNum(0))
    ELSE IF ParseInt(sim.value) <= 0 THEN Resolved(JSNum(0))
    ELSE Resolved(JSNum(ParseInt(sim.value)))

\* getProfileVerifications passing on only an array of six elements.
getProfileVerifications_sixOnly(sim) ==
    IF sim.threw THEN Resolved(SixFalse)
    ELSE IF sim.value.t = "array" /\ Len(sim.value.s) = 6 THEN Resolved(sim.value)
    ELSE Resolved(SixFalse)

\* getProfileVerifications answering a failure with an empty array.
getProfileVerifications_emptyDefault(sim) ==
    IF sim.threw THEN Resolved(JSArr(<<>>))
    ELSE IF sim.value.t = "array" THEN Resolved(sim.value) ELSE Resolved(SixFalse)

getProfileVerifications(sim) ==
    IF sim.threw THEN Resolved(SixFalse)
    ELSE IF sim.value.t = "array" THEN Resolved(sim.value) ELSE Resolved(SixFalse)

isTwitterVerified(sim) ==
    IF sim.threw THEN Resolved(JSBool(FALSE)) ELSE Resolved(JSBool(Truthy(sim.value)))

\* The methods that await one simulateTransaction.
SimulateOps ==
    {"contract.createProfile", "hasProfile", "getProfileId", "getTotalProfiles",
     "getProfileVerifications", "isTwitterVerified"}

ContractReturn(op, sim) ==
    CASE op = "contract.createProfile"  -> createProfile(sim)
      [] op = "hasProfile"              -> hasProfile(sim)
      [] op = "getProfileId"            -> getProfileId(sim)
      [] op = "getTotalProfiles"        -> getTotalProfiles(sim)
      [] op = "getProfileVerifications" -> getProfileVerifications(sim)
      [] op = "isTwitterVerified"       -> isTwitterVerified(sim)

\* simulateTransaction settles with sim, and the method awaiting it returns.
Simulated(call, body, sim) ==
    Done([(IF sim.threw THEN Fail(call) ELSE call) EXCEPT !.loc.body = body, !.loc.sim = sim],
         ContractReturn(call.op, sim))

\* A method of the contract client is called: it calls simulateTransaction,
\* which posts the request and awaits the fetch.
ContractCall(c) ==
    /\ component = "contracts"
    /\ FreeSlot(c)
    /\ \E op \in SimulateOps :
        calls' = [calls EXCEPT ![c] = Begin(op, "fetch", <<"http:aztec_simulateTransaction">>)]
    /\ UNCHANGED <<component, walletAccounts, azguardInstance, sponsored, aa, cleared, disconnected>>

\* The fetch of simulateTransaction settles.  The ok flag is not looked at: the
\* body of any response is parsed.
SimulateFetched(c) ==
    /\ calls[c].op \in SimulateOps
    /\ calls[c].pc = "fetch"
    /\ \E fo \in FetchOutcomes :
        calls' = [calls EXCEPT ![c] =
            IF fo = "reject"
            THEN Simulated(@, NoBody, Threw(NetworkErrorMessage))
            ELSE [@ EXCEPT !.pc = "json"]]
    /\ UNCHANGED <<component, walletAccounts, azguardInstance, sponsored, aa, cleared, disconnected>>

\* response.json() settles; simulateTransaction returns or throws, and the
\* method that awaits it returns.
SimulateParsed(c) ==
    /\ calls[c].op \in SimulateOps
    /\ calls[c].pc = "json"
    /\ \E body \in SimulateBodies :
        calls' = [calls EXCEPT ![c] = Simulated(@, body, simulateTransaction(body))]
    /\ UNCHANGED <<component, walletAccounts, azguardInstance, sponsored, aa, cleared, disconnected>>

\* testConnection calls getBlockNumber, which posts its request.
TestConnectionCall(c) ==
    /\ component = "contracts"
    /\ FreeSlot(c)
    /\ calls' = [calls EXCEPT ![c] = Begin("testConnection", "fetch", <<"http:aztec_getBlockNumber">>)]
    /\ UNCHANGED <<component, walletAccounts, azguardInstance, sponsored, aa, cleared, disconnected>>

BlockNumberFetched(c) ==
    /\ calls[c].op = "testConnection"
    /\ calls[c].pc = "fetch"
    /\ \E fo \in FetchOutcomes :
        calls' = [calls EXCEPT ![c] =
            IF fo = "reject"
            THEN Done(Fail(@), testConnection(JSNum(0)))
            ELSE [@ EXCEPT !.pc = "json"]]
    /\ UNCHANGED <<component, walletAccounts, azguardInstance, sponsored, aa, cleared, disconnected>>

BlockNumberParsed(c) ==
    /\ calls[c].op = "testConnection"
    /\ calls[c].pc = "json"
    /\ \E body \in SimulateBodies :
        calls' = [calls EXCEPT ![c] =
            Done(IF body.kind # "object" THEN Fail(@) ELSE @, testConnection(getBlockNumber(body)))]
    /\ UNCHANGED <<component, walletAccounts, azguardInstance, sponsored, aa, cleared, disconnected>>

\* The caller has taken the settled promise; the slot is free again.
Complete(c) ==
    /\ calls[c].pc = "done"
    /\ calls' = [calls EXCEPT ![c] = IdleCall]
    /\ UNCHANGED <<component, walletAccounts, azguardInstance, sponsored, aa, cleared, disconnected>>

\* ------------------------------------------------------------- azguard-client
\* What a rejected wallet promise carries: an Error with a message, or a value
\* that is no Error.
WalletErrors ==
    { [isError |-> TRUE, msg |-> <<"User rejected the request">>],
      [isError |-> FALSE, msg |-> <<>>] }

Clients == 1..MaxClients

\* s.split(':')
RECURSIVE Split(_)
Split(s) ==
    IF ~Includes(s, <<":">>) THEN <<s>>
    ELSE LET i == CHOOSE k \in 1..Len(s) : s[k] = ":" /\ \A j \in 1..(k - 1) : s[j] # ":"
         IN <<SubSeq(s, 1, i - 1)>> \o Split(SubSeq(s, i + 1, Len(s)))

\* parseAddress taking the segment after the first ':' (parts[1]).
parseAddress_secondPart(fullAccount) ==
    IF fullAccount.t = "str" /\ Includes(fullAccount.s, <<":">>)
    THEN JSStr(Split(fullAccount.s)[2])
    ELSE fullAccount

\* The address connectAzGuard takes from the first account.
parseAddress(fullAccount) ==
    IF fullAccount.t = "str" /\ Includes(fullAccount.s, <<":">>)
    THEN LET parts == Split(fullAccount.s) IN JSStr(parts[Len(parts)])
    ELSE fullAccount

createAccountWrapper(address, fullAccount, client) ==
    [NoAccount EXCEPT !.kind = "azguard", !.address = address,
                      !.fullAccount = fullAccount, !.client = client]

\* connectCatch leaving azguardInstance as it is.
connectCatch_keepsInstance(c, call, err) ==
    /\ azguardInstance' = azguardInstance
    /\ calls' = [calls EXCEPT ![c] =
           Done(call, Failure(IF err.isError THEN err.msg ELSE <<"Failed to connect to AzGuard">>))]

\* The catch block of connectAzGuard.
connectCatch(c, call, err) ==
    /\ azguardInstance' = 0
    /\ calls' = [calls EXCEPT ![c] =
           Done(call, Failure(IF err.isError THEN err.msg ELSE <<"Failed to connect to AzGuard">>))]

Thrown(msg) == [isError |-> TRUE, msg |-> msg]

\* connectAzGuard from the reading of azguard.accounts to its return.
connectFinish(c, call, client) ==
    LET accounts == walletAccounts
        read == Issue(call, "read:accounts")
    IN IF ~accounts.defined \/ Len(accounts.list) = 0
       THEN connectCatch(c, read, Thrown(<<"No account returned from AzGuard">>))
       ELSE LET fullAccount == accounts.list[1]
                address == parseAddress(fullAccount)
                accountWrapper == createAccountWrapper(address, fullAccount, client)
            IN /\ azguardInstance' = client
               /\ calls' = [calls EXCEPT ![c] =
                      Done(read, [NoRet EXCEPT !.state = "resolved", !.success = "true",
                                               !.account = accountWrapper, !.address = address,
                                               !.provider = "azguard"])]

\* notInstalled without its return: the install page is opened and the client
\* is created all the same.
notInstalled_noReturn(call) ==
    [Issue(Issue(call, "window.open"), "wallet:create") EXCEPT !.pc = "create"]

\* connectAzGuard finds the extension missing: it opens the install page and
\* returns.
notInstalled(call) ==
    Done(Issue(call, "window.open"), Failure(<<"AzGuard wallet not installed">>))

\* connectAzGuard is called and awaits AzguardClient.isAzguardInstalled().
ConnectCall(c) ==
    /\ component = "azguard"
    /\ FreeSlot(c)
    /\ calls' = [calls EXCEPT ![c] = Begin("connectAzGuard", "installed", <<"wallet:isAzguardInstalled">>)]
    /\ UNCHANGED <<component, walletAccounts, azguardInstance, sponsored, aa, cleared, disconnected>>

\* isAzguardInstalled() settles: not installed opens the install page and
\* returns; installed goes on to AzguardClient.create().
InstalledSettled(c) ==
    /\ calls[c].op = "connectAzGuard"
    /\ calls[c].pc = "installed"
    /\ \/ \E err \in WalletErrors :
            connectCatch(c, Fail([calls[c] EXCEPT !.loc.isInstalled = "rejected"]), err)
       \/ /\ calls' = [calls EXCEPT ![c] = notInstalled([@ EXCEPT !.loc.isInstalled = "false"])]
          /\ UNCHANGED azguardInstance
       \/ /\ calls' = [calls EXCEPT ![c] =
                 [Issue(@, "wallet:create") EXCEPT !.pc = "create", !.loc.isInstalled = "true"]]
          /\ UNCHANGED azguardInstance
    /\ UNCHANGED <<component, walletAccounts, sponsored, aa, cleared, disconnected>>

\* ClientCreated asking every client to connect, connected or not.
ClientCreated_alwaysConnects(c) ==
    /\ calls[c].op = "connectAzGuard"
    /\ calls[c].pc = "create"
    /\ \/ \E err \in WalletErrors : connectCatch(c, Fail(calls[c]), err)
       \/ connectCatch(c, Fail(calls[c]), Thrown(<<"Failed to initialize AzGuard client">>))
       \/ \E client \in Clients, connected \in {"true", "false"} :
            /\ calls' = [calls EXCEPT ![c] =
                   [Issue(@, "wallet:connect") EXCEPT !.pc = "connect", !.loc.client = client,
                                                      !.loc.connected = connected]]
            /\ UNCHANGED azguardInstance
    /\ UNCHANGED <<component, walletAccounts, sponsored, aa, cleared, disconnected>>

\* AzguardClient.create() settles: it rejects, it gives no client, or it gives
\* a client that is connected already or that is asked to connect.
ClientCreated(c) ==
    /\ calls[c].op = "connectAzGuard"
    /\ calls[c].pc = "create"
    /\ \/ \E err \in WalletErrors : connectCatch(c, Fail(calls[c]), err)
       \/ connectCatch(c, Fail(calls[c]), Thrown(<<"Failed to initialize AzGuard client">>))
       \/ \E client \in Clients :
            connectFinish(c, [calls[c] EXCEPT !.loc.client = client, !.loc.connected = "true"], client)
       \/ \E client \in Clients :
            /\ calls' = [calls EXCEPT ![c] =
                   [Issue(@, "wallet:connect") EXCEPT !.pc = "connect", !.loc.client = client,
                                                      !.loc.connected = "false"]]
            /\ UNCHANGED azguardInstance
    /\ UNCHANGED <<component, walletAccounts, sponsored, aa, cleared, disconnected>>

\* azguard.connect(...) settles.
ConnectSettled(c) ==
    /\ calls[c].op = "connectAzGuard"
    /\ calls[c].pc = "connect"
    /\ \/ \E err \in WalletErrors : connectCatch(c, Fail(calls[c]), err)
       \/ connectFinish(c, calls[c], calls[c].loc.client)
    /\ UNCHANGED <<component, walletAccounts, sponsored, aa, cleared, disconnected>>

\* getAzGuardInstance()
getAzGuardInstance == azguardInstance

\* ------------------------------------------------------------- AztecSponsoredWallet
Keys == 1..MaxKeys

\* A promise of crypto.subtle settles.
CryptoOutcomes == {"ok", "reject"}
CryptoErrorMessage == <<"OperationError">>

\* '0x' + hex(SHA-256(spki(public key of key pair k))), the derived address.
AddressOfKey(k) == JSStr(<<"0x", "sha256-spki-", Digit(k)>>)

\* The ok flag never looked at.
responseOk_unchecked(fo) == TRUE

\* response.ok of a settled fetch.
responseOk(fo) == fo = "ok"

\* The status code of a response that is not ok.
HttpStatus == "500"

\* The bodies the endpoint answers a transaction request with: the result is
\* a transaction hash, or is missing.
TransactionBodies ==
    { Body("unparsable", "absent", <<>>, Undefined), Body("null", "absent", <<>>, Undefined),
      Body("object", "absent", <<>>, JSStr(<<"0x", "tx">>)),
      Body("object", "absent", <<>>, Undefined),
      Body("object", "object", <<"x">>, Undefined) }

CreateOps(w) ==
    IF w = "sponsored" THEN {"createSponsoredAccount"} ELSE {"createAAAccount"}

\* A create call of object w is awaiting something.
CreateInFlight(w) ==
    \E c \in Calls : calls[c].op \in CreateOps(w) /\ calls[c].pc # "done"

\* Object w counts as cleared until a create call on it resolves with
\* success=true.
NoteCreated(w, c) ==
    /\ cleared' = [cleared EXCEPT ![w] =
           IF calls'[c].pc = "done" /\ calls'[c].ret.success = "true" THEN FALSE ELSE @]
    /\ UNCHANGED disconnected

\* Step 4 of createSponsoredAccount, reached whatever registerAccountOnChain
\* did: the account object is built from the derived address and from
\* this.keyPair as it is now, stored and returned.
storeSponsoredAccount(c, call) ==
    LET account == [NoAccount EXCEPT !.kind = "sponsored", !.address = call.loc.address,
                                     !.keyPair = sponsored.keyPair, !.networkRegistered = TRUE]
    IN /\ sponsored' = [sponsored EXCEPT !.account = account]
       /\ calls' = [calls EXCEPT ![c] =
              Done(call, [NoRet EXCEPT !.state = "resolved", !.success = "true",
                                       !.address = call.loc.address, !.account = account,
                                       !.provider = "sponsored"])]

\* The outer catch block of createSponsoredAccount.
sponsoredCatch(c, call, msg) ==
    /\ calls' = [calls EXCEPT ![c] = Done(call, Failure(msg))]
    /\ UNCHANGED sponsored

\* createSponsoredAccount is called and awaits crypto.subtle.generateKey.
SponsoredCreateCall(c) ==
    /\ component = "sponsored"
    /\ FreeSlot(c)
    /\ calls' = [calls EXCEPT ![c] = Begin("createSponsoredAccount", "generateKey", <<>>)]
    /\ disconnected' = [disconnected EXCEPT !.sponsored = FALSE]
    /\ UNCHANGED <<component, walletAccounts, azguardInstance, sponsored, aa, cleared>>

\* generateKey settles: the key pair goes to this.keyPair and the export of
\* its public key is awaited.
KeyGenerated(c) ==
    /\ calls[c].op = "createSponsoredAccount"
    /\ calls[c].pc = "generateKey"
    /\ \/ sponsoredCatch(c, calls[c], CryptoErrorMessage)
       \/ \E k \in Keys :
            /\ sponsored' = [sponsored EXCEPT !.keyPair = k]
            /\ calls' = [calls EXCEPT ![c] = [@ EXCEPT !.pc = "derive", !.loc.keyPair = k]]
    /\ NoteCreated("sponsored", c)
    /\ UNCHANGED <<component, walletAccounts, azguardInstance, aa>>

\* exportKey('spki') and digest settle (they read no shared state between
\* them): the address is derived and registerAccountOnChain fetches /status.
AddressDerived(c) ==
    /\ calls[c].op = "createSponsoredAccount"
    /\ calls[c].pc = "derive"
    /\ \/ sponsoredCatch(c, calls[c], CryptoErrorMessage)
       \/ /\ calls' = [calls EXCEPT ![c] =
                 [Issue(@, "http:status") EXCEPT !.pc = "status",
                                                  !.loc.address = AddressOfKey(calls[c].loc.keyPair)]]
          /\ UNCHANGED sponsored
    /\ NoteCreated("sponsored", c)
    /\ UNCHANGED <<component, walletAccounts, azguardInstance, aa>>

\* StatusFetched letting a failed status check reach the outer catch block.
StatusFetched_failureEscapes(c) ==
    /\ calls[c].op = "createSponsoredAccount"
    /\ calls[c].pc = "status"
    /\ \E fo \in FetchOutcomes :
        LET call == IF fo = "ok" THEN calls[c] ELSE Fail(calls[c])
        IN IF fo # "reject" /\ responseOk(fo)
           THEN /\ calls' = [calls EXCEPT ![c] = [call EXCEPT !.pc = "hashArgs"]]
                /\ UNCHANGED sponsored
           ELSE sponsoredCatch(c, call, NetworkErrorMessage)
    /\ NoteCreated("sponsored", c)
    /\ UNCHANGED <<component, walletAccounts, azguardInstance, aa>>

\* The status check settles.  A rejection or a status that is not ok is caught
\* in registerAccountOnChain, whose result createSponsoredAccount only logs.
StatusFetched(c) ==
    /\ calls[c].op = "createSponsoredAccount"
    /\ calls[c].pc = "status"
    /\ \E fo \in FetchOutcomes :
        LET call == IF fo = "ok" THEN calls[c] ELSE Fail(calls[c])
        IN IF fo # "reject" /\ responseOk(fo)
           THEN /\ calls' = [calls EXCEPT ![c] = [call EXCEPT !.pc = "hashArgs"]]
                /\ UNCHANGED sponsored
           ELSE storeSponsoredAccount(c, call)
    /\ NoteCreated("sponsored", c)
    /\ UNCHANGED <<component, walletAccounts, azguardInstance, aa>>

\* hashString(address) settles; getPublicKeyFromKeyPair reads this.keyPair,
\* throws if it is null and awaits exportKey('raw') of its public key otherwise.
ArgsHashed(c) ==
    /\ calls[c].op = "createSponsoredAccount"
    /\ calls[c].pc = "hashArgs"
    /\ \E co \in CryptoOutcomes :
        IF co = "ok" /\ sponsored.keyPair # 0
        THEN /\ calls' = [calls EXCEPT ![c] =
                    [@ EXCEPT !.pc = "exportRaw", !.loc.sent = sponsored.keyPair]]
             /\ UNCHANGED sponsored
        ELSE storeSponsoredAccount(c, calls[c])
    /\ NoteCreated("sponsored", c)
    /\ UNCHANGED <<component, walletAccounts, azguardInstance, aa>>

\* exportKey('raw') settles and the deployment request is posted.
PublicKeyExported(c) ==
    /\ calls[c].op = "createSponsoredAccount"
    /\ calls[c].pc = "exportRaw"
    /\ \E co \in CryptoOutcomes :
        IF co = "ok"
        THEN /\ calls' = [calls EXCEPT ![c] = [Issue(@, "http:aztec_sendTransaction") EXCEPT !.pc = "deploy"]]
             /\ UNCHANGED sponsored
        ELSE storeSponsoredAccount(c, [calls[c] EXCEPT !.loc.sent = 0])
    /\ NoteCreated("sponsored", c)
    /\ UNCHANGED <<component, walletAccounts, azguardInstance, aa>>

\* The deployment request settles.
DeployFetched(c) ==
    /\ calls[c].op = "createSponsoredAccount"
    /\ calls[c].pc = "deploy"
    /\ \E fo \in FetchOutcomes :
        LET call == IF fo = "ok" THEN calls[c] ELSE Fail(calls[c])
        IN IF fo # "reject" /\ responseOk(fo)
           THEN /\ calls' = [calls EXCEPT ![c] = [call EXCEPT !.pc = "deployJson"]]
                /\ UNCHANGED sponsored
           ELSE storeSponsoredAccount(c, call)
    /\ NoteCreated("sponsored", c)
    /\ UNCHANGED <<component, walletAccounts, azguardInstance, aa>>

\* The body of the deployment response is transaction-hash-bearing or not.
DeployAccepted(body) ==
    body.kind = "object" /\ body.err # "object" /\ Truthy(body.result)

\* deployResponse.json() settles.
DeployParsed(c) ==
    /\ calls[c].op = "createSponsoredAccount"
    /\ calls[c].pc = "deployJson"
    /\ \E body \in TransactionBodies :
        storeSponsoredAccount(c, IF DeployAccepted(body) THEN calls[c] ELSE Fail(calls[c]))
    /\ NoteCreated("sponsored", c)
    /\ UNCHANGED <<component, walletAccounts, azguardInstance, aa>>

\* createProfile of the sponsored wallet is called: without an account it
\* throws at once, else it awaits the two hashString calls.
SponsoredProfileCall(c) ==
    /\ component = "sponsored"
    /\ FreeSlot(c)
    /\ calls' = [calls EXCEPT ![c] =
           LET call == [Begin("sponsored.createProfile", "hash", <<>>) EXCEPT
                            !.loc.cleared = cleared.sponsored]
           IN IF sponsored.account.kind = "none"
              THEN Done(call, Rejected(<<"No account available">>))
              ELSE call]
    /\ UNCHANGED <<component, walletAccounts, azguardInstance, sponsored, aa, cleared, disconnected>>

\* The hashes settle; this.account.address is read (a TypeError when the
\* account is null by now) and the transaction is posted.
ProfileHashed(c) ==
    /\ calls[c].op = "sponsored.createProfile"
    /\ calls[c].pc = "hash"
    /\ \E co \in CryptoOutcomes :
        calls' = [calls EXCEPT ![c] =
            IF co = "reject" THEN Done(@, Failure(CryptoErrorMessage))
            ELSE IF sponsored.account.kind = "none" THEN Done(@, Failure(TypeErrorMessage))
            ELSE [Issue(@, "http:aztec_sendTransaction") EXCEPT !.pc = "fetch"]]
    /\ UNCHANGED <<component, walletAccounts, azguardInstance, sponsored, aa, cleared, disconnected>>

ProfileFetched(c) ==
    /\ calls[c].op = "sponsored.createProfile"
    /\ calls[c].pc = "fetch"
    /\ \E fo \in FetchOutcomes :
        LET call == IF fo = "ok" THEN calls[c] ELSE Fail(calls[c])
        IN calls' = [calls EXCEPT ![c] =
               CASE fo = "reject"   -> Done(call, Failure(NetworkErrorMessage))
                 [] ~responseOk(fo) -> Done(call, Failure(<<"HTTP ", HttpStatus>>))
                 [] OTHER           -> [call EXCEPT !.pc = "json"]]
    /\ UNCHANGED <<component, walletAccounts, azguardInstance, sponsored, aa, cleared, disconnected>>

\* result.result?.transactionHash || result.result || 'pending'
profileTransactionHash(body) ==
    IF Truthy(body.result) THEN body.result ELSE JSStr(<<"pending">>)

ProfileParsed(c) ==
    /\ calls[c].op = "sponsored.createProfile"
    /\ calls[c].pc = "json"
    /\ \E body \in TransactionBodies :
        calls' = [calls EXCEPT ![c] =
            CASE body.kind = "unparsable" -> Done(Fail(@), Failure(SyntaxErrorMessage))
              [] body.kind = "null"       -> Done(Fail(@), Failure(TypeErrorMessage))
              [] body.err = "object"      -> Done(Fail(@), Failure(<<"Aztec RPC Error: ">> \o body.msg))
              [] OTHER -> Done(@, [NoRet EXCEPT !.state = "resolved", !.success = "true",
                                                !.value = profileTransactionHash(body)])]
    /\ UNCHANGED <<component, walletAccounts, azguardInstance, sponsored, aa, cleared, disconnected>>

\* disconnect() dropping the key pair only.
SponsoredDisconnect_keepsAccount ==
    /\ component = "sponsored"
    /\ sponsored' = [sponsored EXCEPT !.keyPair = 0]
    /\ cleared' = [cleared EXCEPT !.sponsored = @ \/ ~CreateInFlight("sponsored")]
    /\ disconnected' = [disconnected EXCEPT !.sponsored = TRUE]
    /\ UNCHANGED <<component, calls, walletAccounts, azguardInstance, aa>>

\* aztecSponsoredWallet.disconnect()
SponsoredDisconnect ==
    /\ component = "sponsored"
    /\ sponsored' = [account |-> NoAccount, keyPair |-> 0]
    /\ cleared' = [cleared EXCEPT !.sponsored = @ \/ ~CreateInFlight("sponsored")]
    /\ disconnected' = [disconnected EXCEPT !.sponsored = TRUE]
    /\ UNCHANGED <<component, calls, walletAccounts, azguardInstance, aa>>

\* getCurrentAccount() of the sponsored wallet
sponsoredCurrentAccount == sponsored.account

\* ------------------------------------------------------------- AztecAccountAbstraction
\* generateAAAddress(): '0x' + the hex of 32 random bytes.
RandomAddress(r) == JSStr(<<"0x", "random-", Digit(r)>>)
generateAAAddress == {RandomAddress(r) : r \in 1..MaxRand}

\* The body answering the account creation request: unparsable, the value
\* null, or an envelope whose error field is absent or an object (it is never
\* looked at) and whose result carries an address and a transactionHash, each
\* Undefined when missing.
CreateBody(kind, err, address, transactionHash) ==
    [kind |-> kind, err |-> err, address |-> address, transactionHash |-> transactionHash]

AACreateBodies ==
    { CreateBody("unparsable", "absent", Undefined, Undefined),
      CreateBody("null", "absent", Undefined, Undefined),
      CreateBody("object", "absent", Undefined, Undefined),
      CreateBody("object", "object", Undefined, Undefined),
      CreateBody("object", "absent", JSStr(<<"0x", "server">>), JSStr(<<"0x", "tx">>)) }

\* The catch block of createAAAccount resetting the held account, as the
\* catch block of connectAzGuard resets azguardInstance.
aaCatch_resetsAccount(c, call, msg) ==
    /\ calls' = [calls EXCEPT ![c] = Done(call, Failure(msg))]
    /\ aa' = [aa EXCEPT !.account = NoAccount]

\* The catch block of createAAAccount.
aaCatch(c, call, msg) ==
    /\ calls' = [calls EXCEPT ![c] = Done(call, Failure(msg))]
    /\ UNCHANGED aa

\* storeAAAccount keeping the address it sent whatever the response carries.
storeAAAccount_ignoresResponse(c, call, body, fresh) ==
    LET address == call.loc.address
        account == [NoAccount EXCEPT !.kind = "aa", !.address = address,
                                     !.transactionHash = body.transactionHash]
    IN /\ aa' = [aa EXCEPT !.account = account]
       /\ calls' = [calls EXCEPT ![c] =
              Done(call, [NoRet EXCEPT !.state = "resolved", !.success = "true",
                                       !.address = address, !.account = account,
                                       !.provider = "account_abstraction"])]

\* createAAAccount from the parsed creation response on: the address of the
\* response, or a newly generated one; the account is stored and returned.
storeAAAccount(c, call, body, fresh) ==
    LET address == IF Truthy(body.address) THEN body.address ELSE fresh
        account == [NoAccount EXCEPT !.kind = "aa", !.address = address,
                                     !.transactionHash = body.transactionHash]
    IN /\ aa' = [aa EXCEPT !.account = account]
       /\ calls' = [calls EXCEPT ![c] =
              Done(call, [NoRet EXCEPT !.state = "resolved", !.success = "true",
                                       !.address = address, !.account = account,
                                       !.provider = "account_abstraction"])]

\* createAAAccount is called and posts pxe_getNodeInfo.
AACreateCall(c) ==
    /\ component = "aa"
    /\ FreeSlot(c)
    /\ calls' = [calls EXCEPT ![c] = Begin("createAAAccount", "status", <<"http:pxe_getNodeInfo">>)]
    /\ disconnected' = [disconnected EXCEPT !.aa = FALSE]
    /\ UNCHANGED <<component, walletAccounts, azguardInstance, sponsored, aa, cleared>>

AAStatusFetched(c) ==
    /\ calls[c].op = "createAAAccount"
    /\ calls[c].pc = "status"
    /\ \E fo \in FetchOutcomes :
        LET call == IF fo = "ok" THEN calls[c] ELSE Fail(calls[c])
        IN CASE fo = "reject"   -> aaCatch(c, call, NetworkErrorMessage)
             [] ~responseOk(fo) -> aaCatch(c, call, <<"PXE connection failed: HTTP ", HttpStatus>>)
             [] OTHER           -> /\ calls' = [calls EXCEPT ![c] = [call EXCEPT !.pc = "statusJson"]]
                                   /\ UNCHANGED aa
    /\ NoteCreated("aa", c)
    /\ UNCHANGED <<component, walletAccounts, azguardInstance, sponsored>>

\* statusResponse.json() settles; its value is only logged.  The address is
\* generated and hashString(aaAddress) is awaited.
AAStatusParsed(c) ==
    /\ calls[c].op = "createAAAccount"
    /\ calls[c].pc = "statusJson"
    /\ \/ aaCatch(c, Fail(calls[c]), SyntaxErrorMessage)
       \/ \E aaAddress \in generateAAAddress :
            /\ calls' = [calls EXCEPT ![c] = [@ EXCEPT !.pc = "hash", !.loc.address = aaAddress]]
            /\ UNCHANGED aa
    /\ NoteCreated("aa", c)
    /\ UNCHANGED <<component, walletAccounts, azguardInstance, sponsored>>

\* The hash settles and the creation request is posted.
AAHashed(c) ==
    /\ calls[c].op = "createAAAccount"
    /\ calls[c].pc = "hash"
    /\ \E co \in CryptoOutcomes :
        IF co = "reject" THEN aaCatch(c, calls[c], CryptoErrorMessage)
        ELSE /\ calls' = [calls EXCEPT ![c] =
                    [Issue(@, "http:aztec_sendTransaction") EXCEPT !.pc = "create"]]
             /\ UNCHANGED aa
    /\ NoteCreated("aa", c)
    /\ UNCHANGED <<component, walletAccounts, azguardInstance, sponsored>>

AACreateFetched(c) ==
    /\ calls[c].op = "createAAAccount"
    /\ calls[c].pc = "create"
    /\ \E fo \in FetchOutcomes :
        LET call == IF fo = "ok" THEN calls[c] ELSE Fail(calls[c])
        IN CASE fo = "reject"   -> aaCatch(c, call, NetworkErrorMessage)
             [] ~responseOk(fo) -> aaCatch(c, call, <<"Account creation failed: HTTP ", HttpStatus>>)
             [] OTHER           -> /\ calls' = [calls EXCEPT ![c] = [call EXCEPT !.pc = "createJson"]]
                                   /\ UNCHANGED aa
    /\ NoteCreated("aa", c)
    /\ UNCHANGED <<component, walletAccounts, azguardInstance, sponsored>>

\* createResponse.json() settles.  The invocation keeps what it was answered:
\* the kind of the body and its result.address.
AACreateParsed(c) ==
    /\ calls[c].op = "createAAAccount"
    /\ calls[c].pc = "createJson"
    /\ \E body \in AACreateBodies :
        LET call == [calls[c] EXCEPT !.loc.body = Body(body.kind, "absent", <<>>, body.address)]
        IN CASE body.kind = "unparsable" -> aaCatch(c, Fail(call), SyntaxErrorMessage)
             [] body.kind = "null"       -> aaCatch(c, call, TypeErrorMessage)
             [] OTHER -> \E fresh \in generateAAAddress : storeAAAccount(c, call, body, fresh)
    /\ NoteCreated("aa", c)
    /\ UNCHANGED <<component, walletAccounts, azguardInstance, sponsored>>

\* disconnect() of the account-abstraction object
AADisconnect ==
    /\ component = "aa"
    /\ aa' = [account |-> NoAccount]
    /\ cleared' = [cleared EXCEPT !.aa = @ \/ ~CreateInFlight("aa")]
    /\ disconnected' = [disconnected EXCEPT !.aa = TRUE]
    /\ UNCHANGED <<component, calls, walletAccounts, azguardInstance, sponsored>>

\* getCurrentAccount() of the account-abstraction object
aaCurrentAccount == aa.account

NextContracts ==
    \E c \in Calls :
        \/ ContractCall(c)
        \/ SimulateFetched(c)
        \/ SimulateParsed(c)
        \/ TestConnectionCall(c)
        \/ BlockNumberFetched(c)
        \/ BlockNumberParsed(c)
        \/ Complete(c)

NextAzguard ==
    \E c \in Calls :
        \/ ConnectCall(c)
        \/ InstalledSettled(c)
        \/ ClientCreated(c)
        \/ ConnectSettled(c)
        \/ Complete(c)

\* createSponsoredAccount alone: calls of it, overlapping or in sequence.
NextSponsoredCreate ==
    \E c \in Calls :
        \/ SponsoredCreateCall(c)
        \/ KeyGenerated(c)
        \/ AddressDerived(c)
        \/ StatusFetched(c)
        \/ ArgsHashed(c)
        \/ PublicKeyExported(c)
        \/ DeployFetched(c)
        \/ DeployParsed(c)
        \/ Complete(c)

NextSponsored ==
    \/ \E c \in Calls :
        \/ SponsoredCreateCall(c)
        \/ KeyGenerated(c)
        \/ AddressDerived(c)
        \/ StatusFetched(c)
        \/ ArgsHashed(c)
        \/ PublicKeyExported(c)
        \/ DeployFetched(c)
        \/ DeployParsed(c)
        \/ SponsoredProfileCall(c)
        \/ ProfileHashed(c)
        \/ ProfileFetched(c)
        \/ ProfileParsed(c)
        \/ Complete(c)
    \/ SponsoredDisconnect

NextAA ==
    \/ \E c \in Calls :
        \/ AACreateCall(c)
        \/ AAStatusFetched(c)
        \/ AAStatusParsed(c)
        \/ AAHashed(c)
        \/ AACreateFetched(c)
        \/ AACreateParsed(c)
        \/ Complete(c)
    \/ AADisconnect

Next == NextContracts \/ NextAzguard \/ NextSponsored \/ NextAA

\* The page as a whole, and each of its objects exercised alone.
Spec == Init /\ [][Next]_vars
InitContracts == Init /\ component = "contracts"
SpecContracts == InitContracts /\ [][NextContracts]_vars
InitAzguard == Init /\ component = "azguard"
SpecAzguard == InitAzguard /\ [][NextAzguard]_vars
InitSponsored == Init /\ component = "sponsored"
SpecSponsored == InitSponsored /\ [][NextSponsored]_vars
SpecSponsoredCreate == InitSponsored /\ [][NextSponsoredCreate]_vars
InitAA == Init /\ component = "aa"
SpecAA == InitAA /\ [][NextAA]_vars

\* ------------------------------------------------------------- properties
HttpRequests ==
    {"http:aztec_simulateTransaction", "http:aztec_getBlockNumber", "http:status",
     "http:aztec_sendTransaction", "http:pxe_getNodeInfo"}
WalletCalls == {"wallet:isAzguardInstalled", "wallet:create", "wallet:connect"}

Issued(call, what) == \E i \in 1..Len(call.trace) : call.trace[i] = what

\* C1: a connectAzGuard call whose isAzguardInstalled() resolved to false has
\* resolved (not rejected) with success=false and the error 'AzGuard wallet not
\* installed', and has neither created a client nor asked one to connect.
C1_NotInstalled ==
    \A c \in Calls :
        (calls[c].op = "connectAzGuard" /\ calls[c].loc.isInstalled = "false") =>
            /\ calls[c].pc = "done"
            /\ calls[c].ret.state = "resolved"
            /\ calls[c].ret.success = "false"
            /\ calls[c].ret.error = <<"AzGuard wallet not installed">>
            /\ ~Issued(calls[c], "wallet:create")
            /\ ~Issued(calls[c], "wallet:connect")
            /\ calls[c].loc.client = 0

C1_Witness ==
    \E c \in Calls :
        /\ calls[c].op = "connectAzGuard"
        /\ calls[c].loc.isInstalled = "false"
        /\ calls[c].ret.success = "false"

\* The characters of s after its last ':'.
AfterLastColon(s) ==
    LET i == CHOOSE k \in 1..Len(s) : s[k] = ":" /\ \A j \in (k + 1)..Len(s) : s[j] # ":"
    IN SubSeq(s, i + 1, Len(s))

HasColon(s) == \E k \in 1..Len(s) : s[k] = ":"

\* C2: a connectAzGuard call that succeeded returns, for a first account
\* string holding a ':', the segment after its last ':', and for one holding
\* none the string itself; the address of the result is that of its wrapper.
C2_AddressExtraction ==
    \A c \in Calls :
        (calls[c].op = "connectAzGuard" /\ calls[c].ret.success = "true") =>
            LET first == walletAccounts.list[1]
                ret == calls[c].ret
            IN /\ ret.account.fullAccount = first
               /\ (first.t = "str" /\ HasColon(first.s)) =>
                      ret.address = JSStr(AfterLastColon(first.s))
               /\ (first.t = "str" /\ ~HasColon(first.s)) => ret.address = first
               /\ ret.account.address = ret.address

C2_Witness ==
    \E c \in Calls :
        /\ calls[c].op = "connectAzGuard"
        /\ calls[c].ret.success = "true"
        /\ calls[c].ret.account.fullAccount = ExampleAccount
        /\ calls[c].ret.address = JSStr(<<"0xABC">>)

\* C3: simulateTransaction, given an envelope whose error field is an object
\* with message m, throws an error whose message contains m and returns
\* nothing; given an envelope without an error field it returns the result
\* field.
C3_SimulateResultOrError ==
    \A c \in Calls :
        (calls[c].op \in SimulateOps /\ calls[c].loc.body.kind = "object") =>
            LET body == calls[c].loc.body
                sim == calls[c].loc.sim
            IN /\ sim.settled
               /\ body.err = "object" =>
                      sim.threw /\ Includes(sim.msg, body.msg) /\ sim.value = Undefined
               /\ body.err = "absent" => ~sim.threw /\ sim.value = body.result

C3_Witness ==
    \E c, d \in Calls :
        /\ calls[c].op \in SimulateOps
        /\ calls[c].loc.body.err = "object"
        /\ calls[c].loc.body.result = JSBool(TRUE)
        /\ calls[c].loc.sim.threw
        /\ calls[d].op \in SimulateOps
        /\ calls[d].loc.body.kind = "object"
        /\ calls[d].loc.body.err = "absent"
        /\ calls[d].loc.sim.value = JSNum(7)

\* simulateTransaction failed by a network exception, by a body that is no
\* JSON, or by an RPC error response.
SimulateFailed(call) ==
    /\ call.loc.sim.settled
    /\ \/ call.loc.sim.msg = NetworkErrorMessage
       \/ call.loc.body.kind = "unparsable"
       \/ call.loc.body.kind = "object" /\ call.loc.body.err = "object"

\* C4: getProfileVerifications never rejects, and when its simulate call
\* failed it has resolved with exactly six false values.
C4_VerificationsDefault ==
    \A c \in Calls :
        calls[c].op = "getProfileVerifications" =>
            /\ calls[c].ret.state # "rejected"
            /\ SimulateFailed(calls[c]) =>
                   /\ calls[c].ret.state = "resolved"
                   /\ calls[c].ret.value = JSArr(<<"false", "false", "false", "false", "false", "false">>)

C4_Witness ==
    \E c, d \in Calls :
        /\ calls[c].op = "getProfileVerifications"
        /\ calls[c].loc.sim.msg = NetworkErrorMessage
        /\ calls[c].ret.state = "resolved"
        /\ calls[d].op = "getProfileVerifications"
        /\ calls[d].loc.body.err = "object"
        /\ calls[d].ret.state = "resolved"

ReadDefault(op) ==
    CASE op = "hasProfile"        -> JSBool(FALSE)
      [] op = "getProfileId"      -> JSStr(<<"0">>)
      [] op = "getTotalProfiles"  -> JSNum(0)
      [] op = "isTwitterVerified" -> JSBool(FALSE)

\* C8: hasProfile, getProfileId, getTotalProfiles and isTwitterVerified never
\* reject, and when the simulate call failed, by a network exception or by an
\* RPC error alike, they have resolved with false, '0', 0 and false.
C8_ReadDefaults ==
    \A c \in Calls :
        calls[c].op \in {"hasProfile", "getProfileId", "getTotalProfiles", "isTwitterVerified"} =>
            /\ calls[c].ret.state # "rejected"
            /\ (calls[c].loc.sim.settled /\ calls[c].loc.sim.threw) =>
                   /\ calls[c].ret.state = "resolved"
                   /\ calls[c].ret.value = ReadDefault(calls[c].op)

C8_Witness ==
    \E c, d \in Calls :
        /\ calls[c].op = "getProfileId"
        /\ calls[c].loc.sim.msg = NetworkErrorMessage
        /\ calls[c].ret.value = JSStr(<<"0">>)
        /\ calls[d].op = "getProfileId"
        /\ calls[d].loc.body.err = "object"
        /\ calls[d].ret.value = JSStr(<<"0">>)

Requests == HttpRequests \cup WalletCalls

RECURSIVE CountIn(_, _)
CountIn(trace, S) ==
    IF trace = <<>> THEN 0
    ELSE (IF Head(trace) \in S THEN 1 ELSE 0) + CountIn(Tail(trace), S)

RoundTrips(call) == CountIn(call.trace, HttpRequests \cup {"wallet:connect"})

\* C7 as stated: an invocation performs at most one wallet confirmation or
\* HTTP request.
C7_SingleRoundTrip ==
    \A c \in Calls : RoundTrips(calls[c]) <= 1

TwoStepOps == {"createSponsoredAccount", "createAAAccount"}

\* C7, amended: an invocation performs at most one wallet confirmation or
\* HTTP request, except createSponsoredAccount and createAAAccount, which
\* perform at most two HTTP requests, the status check first and the
\* transaction request after it.
C7_RoundTripsBounded ==
    \A c \in Calls :
        LET call == calls[c]
            http == SelectSeq(call.trace, LAMBDA x : x \in HttpRequests)
        IN IF call.op \in TwoStepOps
           THEN /\ RoundTrips(call) <= 2
                /\ Len(http) = 2 =>
                       /\ http[1] = (IF call.op = "createAAAccount" THEN "http:pxe_getNodeInfo"
                                     ELSE "http:status")
                       /\ http[2] = "http:aztec_sendTransaction"
           ELSE RoundTrips(call) <= 1

C7_Witness ==
    \E c, d \in Calls :
        /\ calls[c].op = "createAAAccount"
        /\ RoundTrips(calls[c]) = 2
        /\ calls[c].ret.success = "true"
        /\ calls[d].op = "createAAAccount"
        /\ RoundTrips(calls[d]) = 2
        /\ calls[d].ret.success = "false"

\* C9: an object that was disconnected with no create call in flight (or is
\* new) holds no account until a create call on it resolves with success; a
\* createProfile begun on the sponsored wallet in that state has rejected with
\* 'No account available' and has sent no request.
C9_DiscardedOnDisconnect ==
    /\ cleared.sponsored => sponsoredCurrentAccount = NoAccount
    /\ cleared.aa => aaCurrentAccount = NoAccount
    /\ \A c \in Calls :
        (calls[c].op = "sponsored.createProfile" /\ calls[c].loc.cleared) =>
            /\ calls[c].pc = "done"
            /\ calls[c].ret.state = "rejected"
            /\ calls[c].ret.error = <<"No account available">>
            /\ calls[c].trace = <<>>

\* A create call has succeeded, a disconnect has followed it, and a
\* createProfile was begun after that.
C9_Witness ==
    \E c, d \in Calls :
        /\ calls[c].op = "createSponsoredAccount"
        /\ calls[c].ret.success = "true"
        /\ cleared.sponsored
        /\ calls[d].op = "sponsored.createProfile"
        /\ calls[d].loc.cleared
        /\ calls[d].ret.state = "rejected"

C10_State ==
    \A c \in Calls :
        calls[c].op = "createAAAccount" =>
            /\ calls[c].ret.state # "rejected"
            /\ calls[c].failedAt > 0 =>
                   /\ calls[c].pc = "done"
                   /\ calls[c].ret.state = "resolved"
                   /\ calls[c].ret.success = "false"
                   /\ Len(calls[c].ret.error) > 0
            /\ calls[c].ret.success = "true" =>
                   /\ calls[c].failedAt = 0
                   /\ calls[c].trace = <<"http:pxe_getNodeInfo", "http:aztec_sendTransaction">>

\* A step of a createAAAccount call, unless the call resolves with success in
\* it, leaves the stored account as it is.
C10_Step ==
    \A c \in Calls :
        (/\ calls[c].op = "createAAAccount"
         /\ calls'[c] # calls[c]
         /\ calls'[c].op = "createAAAccount"
         /\ calls'[c].ret.success # "true") => aa' = aa

\* C10: createAAAccount never rejects; when one of its two requests fails it
\* resolves with success=false and a non-empty error, and leaves the stored
\* account untouched; it resolves with success=true only after both requests
\* were answered with an OK status.
C10_AAFailureContained == []C10_State /\ [][C10_Step]_vars

C10_Witness ==
    \E c \in Calls :
        /\ calls[c].op = "createAAAccount"
        /\ calls[c].failedAt = 2
        /\ calls[c].ret.success = "false"
        /\ aaCurrentAccount.kind = "aa"

\* ------------------------------------------------------------- C11
\* The address the creation response of a createAAAccount call carried.
ServedAddress(call) == call.loc.body.result

C11_State ==
    \A c \in Calls :
        calls[c].op = "createAAAccount" =>
            /\ (calls[c].pc = "done" /\ calls[c].loc.body.kind = "object") =>
                   calls[c].ret.success = "true"
            /\ calls[c].ret.success = "true" =>
                   /\ calls[c].ret.state = "resolved"
                   /\ calls[c].ret.provider = "account_abstraction"
                   /\ IF Truthy(ServedAddress(calls[c]))
                      THEN calls[c].ret.address = ServedAddress(calls[c])
                      ELSE calls[c].ret.address \in generateAAAddress
                   /\ calls[c].ret.account.kind = "aa"
                   /\ calls[c].ret.account.address = calls[c].ret.address

\* In the step in which a createAAAccount call resolves with success, the
\* object comes to hold the account of the result.
C11_Step ==
    \A c \in Calls :
        (/\ calls[c].op = "createAAAccount"
         /\ calls[c].pc # "done"
         /\ calls'[c].ret.success = "true") => aa'.account = calls'[c].ret.account

\* C11: a createAAAccount call whose two requests were answered with an OK
\* status and a JSON object resolves with success=true; its address is the
\* result.address of the response when the response carries one, and one of
\* the locally generated random values otherwise; the address of the result is
\* the address of the account that getCurrentAccount() returns from then on.
C11_AAAddress == []C11_State /\ [][C11_Step]_vars

\* Both cases have happened: one call took the address of the response, the
\* other, answered without one, took a random value.
C11_Witness ==
    \E c, d \in Calls :
        /\ calls[c].op = "createAAAccount"
        /\ calls[c].ret.success = "true"
        /\ calls[c].ret.address = JSStr(<<"0x", "server">>)
        /\ calls[d].op = "createAAAccount"
        /\ calls[d].ret.success = "true"
        /\ ServedAddress(calls[d]) = Undefined
        /\ calls[d].ret.address \in generateAAAddress
        /\ aaCurrentAccount = calls[d].ret.account

\* ------------------------------------------------------------- C12
\* C12: when the creation response carries no result.address, the address
\* that createAAAccount returns and stores is the random address it generated
\* before the request and sent as origin and contractAddress.
C12_FallbackIsSentAddress ==
    \A c \in Calls :
        (/\ calls[c].op = "createAAAccount"
         /\ calls[c].ret.success = "true"
         /\ ~Truthy(ServedAddress(calls[c]))) =>
            /\ calls[c].ret.address = calls[c].loc.address
            /\ calls[c].ret.account.address = calls[c].loc.address

\* ------------------------------------------------------------- C13
\* The places of a wallet call or page action in what an invocation issued.
Places(call, what) == {i \in 1..Len(call.trace) : call.trace[i] = what}

NoAccountList == ~walletAccounts.defined \/ Len(walletAccounts.list) = 0

\* C13: connectAzGuard asks isAzguardInstalled first; it creates the client
\* only after the check said installed, and opens the install page only after
\* it said not installed; it asks the client to connect only when the client
\* reported connected=false, never when it reported connected=true; it reads
\* the account list last, after the creation and, where one was asked for,
\* the connection succeeded; and with a missing or empty account list it
\* resolves with success=false, 'No account returned from AzGuard' and no
\* address.
C13_StepOrder ==
    \A c \in Calls :
        calls[c].op = "connectAzGuard" =>
            LET call == calls[c]
            IN /\ call.trace[1] = "wallet:isAzguardInstalled"
               /\ Places(call, "wallet:isAzguardInstalled") = {1}
               /\ Places(call, "wallet:create") \subseteq {2}
               /\ Places(call, "wallet:create") # {} => call.loc.isInstalled = "true"
               /\ Places(call, "window.open") \subseteq {2}
               /\ Places(call, "window.open") # {} => call.loc.isInstalled = "false"
               /\ Places(call, "wallet:connect") \subseteq {3}
               /\ Places(call, "wallet:connect") # {} =>
                      call.trace[2] = "wallet:create" /\ call.loc.connected = "false"
               /\ call.loc.connected = "true" => Places(call, "wallet:connect") = {}
               /\ Places(call, "read:accounts") \subseteq {Len(call.trace)}
               /\ Places(call, "read:accounts") # {} =>
                      /\ call.failedAt = 0
                      /\ call.loc.connected \in {"true", "false"}
                      /\ call.trace[Len(call.trace) - 1] =
                             (IF call.loc.connected = "true" THEN "wallet:create" ELSE "wallet:connect")
                      /\ NoAccountList =>
                             /\ call.ret.state = "resolved"
                             /\ call.ret.success = "false"
                             /\ call.ret.error = <<"No account returned from AzGuard">>
                             /\ call.ret.address = Undefined

\* A client that reported connected=false was asked to connect and then
\* found without accounts; a client that reported connected=true was read
\* without being asked to connect.
C13_Witness ==
    \E c, d \in Calls :
        /\ calls[c].op = "connectAzGuard"
        /\ calls[c].trace = <<"wallet:isAzguardInstalled", "wallet:create", "wallet:connect", "read:accounts">>
        /\ calls[d].op = "connectAzGuard"
        /\ calls[d].loc.connected = "true"
        /\ calls[d].trace = <<"wallet:isAzguardInstalled", "wallet:create", "read:accounts">>
        /\ NoAccountList
        /\ calls[c].ret.error = <<"No account returned from AzGuard">>

\* ------------------------------------------------------------- C14
\* The connectAzGuard call of slot c settles in this step.
ConnectSettles(c) ==
    /\ calls[c].op = "connectAzGuard"
    /\ calls[c].pc # "done"
    /\ calls'[c].pc = "done"

C14_Step ==
    /\ \A c \in Calls :
        ConnectSettles(c) =>
            CASE calls'[c].ret.success = "true" ->
                    /\ calls'[c].loc.client # 0
                    /\ calls'[c].ret.account.client = calls'[c].loc.client
                    /\ getAzGuardInstance' = calls'[c].loc.client
              [] calls'[c].loc.isInstalled = "false" ->
                    getAzGuardInstance' = getAzGuardInstance
              [] OTHER ->
                    getAzGuardInstance' = 0
    /\ (\A c \in Calls : ~ConnectSettles(c)) => getAzGuardInstance' = getAzGuardInstance

\* C14: a connectAzGuard call that resolves with success=true sets
\* azguardInstance to the client whose account it returns; one that ends in
\* the catch block sets it to null; one that finds the extension not
\* installed leaves it as it is; no other step changes it.  So it is non-null
\* only when a call has succeeded and no call has ended in the catch block
\* since.
C14_InstanceFollowsCalls == [][C14_Step]_vars

\* One call has succeeded, a later one found the extension not installed,
\* and the reference still is the client of the first.
C14_Witness ==
    \E c, d \in Calls :
        /\ calls[c].op = "connectAzGuard"
        /\ calls[c].ret.success = "true"
        /\ calls[d].op = "connectAzGuard"
        /\ calls[d].pc = "done"
        /\ calls[d].loc.isInstalled = "false"
        /\ getAzGuardInstance = calls[c].loc.client
        /\ getAzGuardInstance # 0

\* ------------------------------------------------------------- C15
\* An account object of the sponsored wallet is consistent: its address is
\* the one derived from the key pair in its keyPair field.
ConsistentAccount(account) == account.address = AddressOfKey(account.keyPair)

\* C15: with createSponsoredAccount calls overlapping, every account a call
\* returns, and the account the wallet holds, has the address derived from its
\* own keyPair field; that key pair is the one signMessage signs with
\* (this.keyPair) and the one whose public key the call put into its
\* deployment request.
C15_ConsistentAccounts ==
    /\ \A c \in Calls :
        (calls[c].op = "createSponsoredAccount" /\ calls[c].ret.success = "true") =>
            /\ ConsistentAccount(calls[c].ret.account)
            /\ calls[c].loc.sent # 0 => calls[c].loc.sent = calls[c].ret.account.keyPair
    /\ sponsoredCurrentAccount # NoAccount =>
            /\ ConsistentAccount(sponsoredCurrentAccount)
            /\ sponsored.keyPair = sponsoredCurrentAccount.keyPair

\* ------------------------------------------------------------- C16
\* C16: once disconnect() has run on the sponsored wallet or on the
\* account-abstraction object and no create call was started on it since,
\* getCurrentAccount() returns null, also when a create call was awaiting a
\* response while disconnect() ran.
C16_StaysDisconnected ==
    /\ disconnected.sponsored => sponsoredCurrentAccount = NoAccount
    /\ disconnected.aa => aaCurrentAccount = NoAccount

\* ------------------------------------------------------------- C17
\* An array of exactly six elements, each a boolean.
SixBooleans(v) ==
    /\ v.t = "array"
    /\ Len(v.s) = 6
    /\ \A i \in 1..Len(v.s) : v.s[i] \in {"true", "false"}

\* C17 as stated: getProfileVerifications resolves, whatever the endpoint
\* answers, with an array of exactly six booleans.
C17_AlwaysSixBooleans ==
    \A c \in Calls :
        (calls[c].op = "getProfileVerifications" /\ calls[c].pc = "done") =>
            /\ calls[c].ret.state = "resolved"
            /\ SixBooleans(calls[c].ret.value)

\* C17, amended: getProfileVerifications resolves with an array: the result
\* of the endpoint as it came when that is an array, of whatever length and
\* elements, and six false values for any other result, an RPC error or a
\* failed request.
C17_ArrayPassedThrough ==
    \A c \in Calls :
        (calls[c].op = "getProfileVerifications" /\ calls[c].pc = "done") =>
            /\ calls[c].ret.state = "resolved"
            /\ calls[c].ret.value.t = "array"
            /\ IF ~calls[c].loc.sim.threw /\ calls[c].loc.sim.value.t = "array"
               THEN calls[c].ret.value = calls[c].loc.sim.value
               ELSE calls[c].ret.value = SixFalse

\* The endpoint answered with an array of two elements, one of them no
\* boolean, and the call resolved with it.
C17_Witness ==
    \E c \in Calls :
        /\ calls[c].op = "getProfileVerifications"
        /\ calls[c].pc = "done"
        /\ calls[c].loc.body.result = JSArr(<<"true", "1">>)
        /\ calls[c].ret.value = JSArr(<<"true", "1">>)
        /\ ~SixBooleans(calls[c].ret.value)

\* ------------------------------------------------------------- C18
C18_State ==
    \A c \in Calls :
        calls[c].op = "createSponsoredAccount" =>
            /\ calls[c].ret.state # "rejected"
            /\ (calls[c].pc = "done" /\ calls[c].trace # <<>>) => calls[c].ret.success = "true"
            /\ calls[c].ret.success = "true" =>
                   /\ calls[c].ret.state = "resolved"
                   /\ calls[c].ret.provider = "sponsored"
                   /\ calls[c].loc.keyPair \in Keys
                   /\ calls[c].ret.address = AddressOfKey(calls[c].loc.keyPair)
                   /\ calls[c].ret.account.address = calls[c].ret.address
                   /\ calls[c].ret.account.networkRegistered
            /\ calls[c].ret.success = "false" =>
                   /\ calls[c].trace = <<>>
                   /\ calls[c].failedAt = 0
                   /\ calls[c].ret.error = CryptoErrorMessage

\* In the step in which a createSponsoredAccount call resolves with success,
\* the wallet comes to hold the account of the result.
C18_Step ==
    \A c \in Calls :
        (/\ calls[c].op = "createSponsoredAccount"
         /\ calls[c].pc # "done"
         /\ calls'[c].ret.success = "true") => sponsored'.account = calls'[c].ret.account

\* C18: once its key pair is generated and its address derived,
\* createSponsoredAccount resolves with success=true, provider 'sponsored' and
\* the address derived from the key pair it generated, stores the account and
\* marks it networkRegistered, whatever the status check and the deployment
\* request do; it resolves with success=false only when generateKey, exportKey
\* or digest rejects, before any request is made; it never rejects.
C18_NetworkIndependent == []C18_State /\ [][C18_Step]_vars

\* One call succeeded although its status check failed, another although
\* its deployment request failed.
C18_Witness ==
    \E c, d \in Calls :
        /\ calls[c].op = "createSponsoredAccount"
        /\ calls[c].ret.success = "true"
        /\ calls[c].failedAt = 1
        /\ calls[d].op = "createSponsoredAccount"
        /\ calls[d].ret.success = "true"
        /\ calls[d].failedAt = 2
        /\ calls[d].ret.account.networkRegistered

====
